---- MODULE Spec2Model ----
(***************************************************************************)
(* Model of populate-trade-fileevents.py: main() obtains the file          *)
(* inventory from the FileCache (load or build+save), then                 *)
(* populate_fileevents() classifies every record and publishes it with     *)
(* insert_fileevent(), an existence check followed by an insert into the   *)
(* FileEvent table.  Two invocations of the script (Procs) share the       *)
(* store and the cache artifact.                                           *)
(*                                                                         *)
(* Spec is the scheduled job run after run, SpecLive the same under the    *)
(* interpreter's progress, SpecConc two invocations that may overlap, and  *)
(* SpecClassify the filename classifier called on its own.                 *)
(***************************************************************************)
EXTENDS Integers, Sequences, FiniteSets, TLC

\* ------------------------------------------------------------------ bounds
\* Longest inventory a cache build or load yields.
MaxLen == 3
\* Number of invocations of the script that are started in one behaviour.
MaxRuns == 2
\* Longest inventory when invocations overlap (SpecConc).
MaxLenConc == 1
\* Longest filename, in tokens, given to the classifier on its own
\* (SpecClassify).
MaxNameLen == 6

\* The invocations: p1 is the scheduled job, p2 one started while it may run.
Procs == {"p1", "p2"}
Scheduled == {"p1"}

\* Python's None; a value v that may be None is carried as <<v>>.
None == << >>

\* ------------------------------------------------------- inventory records
\* A filename is the sequence of its maximal runs of [A-Za-z0-9], its
\* underscores and its other characters: TRADE_IRS_20240101.csv is
\* <<"TRADE", "_", "IRS", "_", "20240101", ".csv">>.
WordTokens == {"TRADE", "IRS", "OIS", "BS", "XYZ", "20240101", "20240102"}

RecIRS == [full_path |-> "/src/TRADE_IRS_20240101.csv",
           filename |-> <<"TRADE", "_", "IRS", "_", "20240101", ".csv">>,
           formatted_date |-> "2024-01-01"]

RecXYZ == [full_path |-> "/src/TRADE_XYZ_20240101.csv",
           filename |-> <<"TRADE", "_", "XYZ", "_", "20240101", ".csv">>,
           formatted_date |-> "2024-01-01"]

RecOIS == [full_path |-> "/src/TRADE_OIS_20240102.csv",
           filename |-> <<"TRADE", "_", "OIS", "_", "20240102", ".csv">>,
           formatted_date |-> "2024/01/02"]

Records == {RecIRS, RecXYZ, RecOIS}

\* A file of another source location: its FileEvent row is in the table, the
\* file is in no inventory of these invocations.
RecBS == [full_path |-> "/archive/TRADE_BS_20231229.csv",
          filename |-> <<"TRADE", "_", "BS", "_", "20231229", ".csv">>,
          formatted_date |-> "2023-12-29"]

RECURSIVE SeqsUpTo(_, _)
SeqsUpTo(S, n) ==
    IF n = 0 THEN {<< >>}
    ELSE LET prev == SeqsUpTo(S, n - 1)
         IN  prev \cup {Append(s, x) : s \in {t \in prev : Len(t) = n - 1}, x \in S}

\* The file lists a FileCache can hold: cache.file_list.
Inventories(n) == SeqsUpTo(Records, n)

\* ------------------------------------------------------------- classifier
\* The configured pattern, and two other patterns a configuration can hold:
\* one whose second group takes any upper-case code, one with a single group.
FILENAME_PATTERN == "^(\\w+)_(IRS|OIS|BS)_.*$"
ANY_CODE_PATTERN == "^(\\w+)_([A-Z]+)_.*$"
ONE_GROUP_PATTERN == "^(\\w+)_.*$"

Patterns == {FILENAME_PATTERN, ANY_CODE_PATTERN, ONE_GROUP_PATTERN}

\* The tokens the second group of a pattern accepts.
Group2Codes(pattern) ==
    CASE pattern = FILENAME_PATTERN -> {"IRS", "OIS", "BS"}
      [] pattern = ANY_CODE_PATTERN -> {"TRADE", "IRS", "OIS", "BS", "XYZ"}
      [] OTHER -> {}

\* An exception e that a call raises instead of returning.
Raised(e) == <<"raise", e>>
TypeError == Raised("TypeError")
IndexError == Raised("IndexError")

\* re.match of a two-group pattern: group 1 is a non-empty run of word
\* characters (the underscore is one), then "_", a type code, "_" and any
\* rest.  \w+ is greedy, so of the positions where the pattern matches the
\* last one wins.
MatchPositions(pattern, filename) ==
    {j \in 2..(Len(filename) - 2) :
        /\ \A i \in 1..(j - 1) : filename[i] \in WordTokens \cup {"_"}
        /\ filename[j] = "_"
        /\ filename[j + 1] \in Group2Codes(pattern)
        /\ filename[j + 2] = "_"}

\* re.match of the one-group pattern: word characters, then "_".
MatchesOneGroup(filename) ==
    \E j \in 2..Len(filename) :
        /\ \A i \in 1..(j - 1) : filename[i] \in WordTokens \cup {"_"}
        /\ filename[j] = "_"

MaxOf(S) == CHOOSE x \in S : \A y \in S : y <= x

\* Lines 62-65: None when re.match finds no match, else <<match.group(2)>>;
\* group(2) of a pattern that has one group raises IndexError.
re_match_group2(pattern, filename) ==
    IF pattern = ONE_GROUP_PATTERN
    THEN IF MatchesOneGroup(filename) THEN IndexError ELSE None
    ELSE IF MatchPositions(pattern, filename) = {} THEN None
         ELSE <<filename[MaxOf(MatchPositions(pattern, filename)) + 1]>>

\* Mutant: BS given the identifier of OIS.
type_mapping_BS_as_OIS(file_type) ==
    CASE file_type = "IRS" -> <<1>>
      [] file_type = "OIS" -> <<2>>
      [] file_type = "BS" -> <<2>>
      [] OTHER -> None

\* type_mapping.get(file_type)
type_mapping(file_type) ==
    CASE file_type = "IRS" -> <<1>>
      [] file_type = "OIS" -> <<2>>
      [] file_type = "BS" -> <<3>>
      [] OTHER -> None

get_datafiletype_id_from_filename(filename, filename_pattern) ==
    CASE re_match_group2(filename_pattern, filename) = None -> None
      [] re_match_group2(filename_pattern, filename) = IndexError -> IndexError
      [] OTHER -> type_mapping(re_match_group2(filename_pattern, filename)[1])

\* The call with the pattern as main holds it, None or <<pattern>>:
\* re.match(None, filename) raises TypeError.
classify(filename, pattern) ==
    IF pattern = None THEN TypeError
    ELSE get_datafiletype_id_from_filename(filename, pattern[1])

\* The filenames of up to n tokens: word tokens are maximal runs, so no two
\* are adjacent.
NameTokens == {"TRADE", "IRS", "OIS", "BS", "XYZ", "20240101", "_", ".csv"}

RECURSIVE Filenames(_)
Filenames(n) ==
    IF n = 0 THEN {<< >>}
    ELSE LET prev == Filenames(n - 1)
             ext == {x \in {f \in prev : Len(f) = n - 1} \X NameTokens :
                        \/ x[1] = << >>
                        \/ x[2] \notin WordTokens
                        \/ x[1][Len(x[1])] \notin WordTokens}
         IN  prev \cup {Append(x[1], x[2]) : x \in ext}

PatternInputs == {None} \cup {<<pat>> : pat \in Patterns}

\* --------------------------------------------------------------- the store
\* date.fromisoformat: YYYY-MM-DD gives the date, anything else ValueError.
ValueError == <<"ValueError">>

fromisoformat(s) ==
    CASE s = "2024-01-01" -> <<2024, 1, 1>>
      [] s = "2024-01-02" -> <<2024, 1, 2>>
      [] s = "2023-12-29" -> <<2023, 12, 29>>
      [] OTHER -> ValueError

\* (FileName, FileLocation, MarketDate, DataFileTypeId) of a record.
IdentityKey(rec) ==
    <<rec.filename, rec.full_path, fromisoformat(rec.formatted_date),
      get_datafiletype_id_from_filename(rec.filename, FILENAME_PATTERN)[1]>>

Publishable(rec) ==
    /\ get_datafiletype_id_from_filename(rec.filename, FILENAME_PATTERN) # None
    /\ fromisoformat(rec.formatted_date) # ValueError

Keys == {IdentityKey(rec) : rec \in {r \in Records \cup {RecBS} : Publishable(r)}}

\* The key of the row of RecBS.
KeyBS == IdentityKey(RecBS)

\* ------------------------------------------------------------------- state
VARIABLES
    store,           \* FileEvent table: identity key -> number of rows with it
    cache_file,      \* the cache artifact {CACHE_FILE_FOLDER}/{type}_cache.pkl
    nruns,           \* invocations started so far
    pc,              \* where each invocation is
    exc,             \* the exception that ended the invocation, "" if none
    exit_code,       \* process exit status, None while it runs
    io,              \* cache operations the invocation performed, in order
    store_used,      \* the invocation has called the store (connect or later)
    use_cached,      \* main: config["USE_CACHED"]
    filename_pattern,\* main: dft_config.get("FILENAME_PATTERN")
    file_list,       \* cache.file_list
    total, inserted, skipped, failed,   \* populate_fileevents counters
    idx,             \* records the for loop has consumed
    outcomes,        \* what happened to each consumed record
    status,          \* last progress line: <<processed, remaining, failed>>
    emitted,         \* progress lines printed
    ret,             \* value populate_fileevents returned, None before
    key,             \* insert_fileevent: the identity key being published
    count,           \* insert_fileevent: result of the existence query
    pending,         \* rows inserted on the connection and not yet committed
    present0,        \* the key had a row when insert_fileevent was called
    audit,           \* the audit trail of the run: lines <<filename, location, outcome>>
    store0,          \* the store when the invocation started
    seqno,           \* the invocation's number, 1 for the first started
    endno,           \* invocations started when this one ended
    cl_filename,     \* classifier called on its own: the filename argument
    cl_pattern,      \* ... the filename_pattern argument, None or <<pattern>>
    cl_called,       \* ... the call has been made
    cl_result        \* ... what it returned or raised

globalVars == <<store, cache_file, nruns>>
mainVars == <<exc, exit_code, io, use_cached, filename_pattern, file_list>>
popVars == <<total, inserted, skipped, failed, idx, outcomes, status, emitted, ret>>
insVars == <<key, count, pending, present0, store_used>>
ghostVars == <<store0, seqno, endno>>
clVars == <<cl_filename, cl_pattern, cl_called, cl_result>>
vars == <<globalVars, pc, mainVars, popVars, insVars, audit, ghostVars, clVars>>

NoKey == << >>
Halted(p) == pc[p] \in {"idle", "done", "raised"}

CacheStates ==
    {[state |-> "missing", file_list |-> << >>],
     [state |-> "corrupt", file_list |-> << >>]}
    \cup {[state |-> "ok", file_list |-> <<RecIRS>>]}

\* No invocation has been started.
Idle ==
    /\ nruns = 0
    /\ pc = [p \in Procs |-> "idle"]
    /\ exc = [p \in Procs |-> ""]
    /\ exit_code = [p \in Procs |-> None]
    /\ io = [p \in Procs |-> << >>]
    /\ store_used = [p \in Procs |-> FALSE]
    /\ use_cached = [p \in Procs |-> FALSE]
    /\ filename_pattern = [p \in Procs |-> None]
    /\ file_list = [p \in Procs |-> << >>]
    /\ total = [p \in Procs |-> 0]
    /\ inserted = [p \in Procs |-> 0]
    /\ skipped = [p \in Procs |-> 0]
    /\ failed = [p \in Procs |-> 0]
    /\ idx = [p \in Procs |-> 0]
    /\ outcomes = [p \in Procs |-> << >>]
    /\ status = [p \in Procs |-> None]
    /\ emitted = [p \in Procs |-> 0]
    /\ ret = [p \in Procs |-> None]
    /\ key = [p \in Procs |-> NoKey]
    /\ count = [p \in Procs |-> 0]
    /\ pending = [p \in Procs |-> 0]
    /\ present0 = [p \in Procs |-> FALSE]
    /\ audit = [p \in Procs |-> << >>]
    /\ store0 = [p \in Procs |-> store]
    /\ seqno = [p \in Procs |-> 0]
    /\ endno = [p \in Procs |-> 0]

\* The classifier has not been called on its own.
NoClassifierCall ==
    /\ cl_filename = << >>
    /\ cl_pattern = None
    /\ cl_called = FALSE
    /\ cl_result = None

\* The table holds the row of RecBS and may hold the rows of the inventory's
\* records; the cache artifact may be missing, corrupt or good.
Init ==
    /\ store \in {st \in [Keys -> {0, 1}] : st[KeyBS] = 1}
    /\ cache_file \in CacheStates
    /\ Idle
    /\ NoClassifierCall

\* An exception nobody catches: the traceback is printed and the interpreter
\* exits with status 1; what main held is gone with the process.
Raise(p, e) ==
    /\ pc' = [pc EXCEPT ![p] = "raised"]
    /\ endno' = [endno EXCEPT ![p] = nruns]
    /\ exc' = [exc EXCEPT ![p] = e]
    /\ exit_code' = [exit_code EXCEPT ![p] = <<1>>]
    /\ use_cached' = [use_cached EXCEPT ![p] = FALSE]
    /\ filename_pattern' = [filename_pattern EXCEPT ![p] = None]
    /\ file_list' = [file_list EXCEPT ![p] = << >>]

\* ------------------------------------------------------------------- main
\* The script is started: __main__ parses the argument and main() sets up the
\* loggers (setup_app_logger opens logging.yaml, which may fail).
Start(p) ==
    /\ Halted(p)
    /\ nruns < MaxRuns
    /\ nruns' = nruns + 1
    /\ seqno' = [seqno EXCEPT ![p] = nruns + 1]
    /\ store0' = [store0 EXCEPT ![p] = store]
    /\ io' = [io EXCEPT ![p] = << >>]
    /\ store_used' = [store_used EXCEPT ![p] = FALSE]
    /\ use_cached' = [use_cached EXCEPT ![p] = FALSE]
    /\ filename_pattern' = [filename_pattern EXCEPT ![p] = None]
    /\ file_list' = [file_list EXCEPT ![p] = << >>]
    /\ total' = [total EXCEPT ![p] = 0]
    /\ inserted' = [inserted EXCEPT ![p] = 0]
    /\ skipped' = [skipped EXCEPT ![p] = 0]
    /\ failed' = [failed EXCEPT ![p] = 0]
    /\ idx' = [idx EXCEPT ![p] = 0]
    /\ outcomes' = [outcomes EXCEPT ![p] = << >>]
    /\ status' = [status EXCEPT ![p] = None]
    /\ emitted' = [emitted EXCEPT ![p] = 0]
    /\ ret' = [ret EXCEPT ![p] = None]
    /\ key' = [key EXCEPT ![p] = NoKey]
    /\ count' = [count EXCEPT ![p] = 0]
    /\ pending' = [pending EXCEPT ![p] = 0]
    /\ present0' = [present0 EXCEPT ![p] = FALSE]
    /\ audit' = [audit EXCEPT ![p] = << >>]
    /\ \E logging_ok \in BOOLEAN :
          IF logging_ok
          THEN /\ pc' = [pc EXCEPT ![p] = "config"]
               /\ exc' = [exc EXCEPT ![p] = ""]
               /\ exit_code' = [exit_code EXCEPT ![p] = None]
               /\ UNCHANGED endno
          ELSE /\ pc' = [pc EXCEPT ![p] = "raised"]
               /\ exc' = [exc EXCEPT ![p] = "init_logging"]
               /\ exit_code' = [exit_code EXCEPT ![p] = <<1>>]
               /\ endno' = [endno EXCEPT ![p] = nruns + 1]
    /\ UNCHANGED <<store, cache_file, clVars>>

\* What reading the configuration (lines 215-235) can come to, by the first
\* thing that goes wrong: the file cannot be loaded, neither section has
\* SOURCE_LOCATION, USE_CACHED is absent, CACHE_FILE_FOLDER is absent (then
\* os.path.join(None, ...) raises).  FILENAME_PATTERN is read with .get().
ConfigErrors ==
    {"load_config", "KeyError: SOURCE_LOCATION", "KeyError: USE_CACHED",
     "TypeError: CACHE_FILE_FOLDER"}

\* Mutant: the cache is loaded whatever USE_CACHED says.
ReadConfigAlwaysLoad(p) ==
    /\ pc[p] = "config"
    /\ \/ \E e \in ConfigErrors : Raise(p, e)
       \/ \E uc \in BOOLEAN, pat \in {None, <<FILENAME_PATTERN>>} :
            /\ use_cached' = [use_cached EXCEPT ![p] = uc]
            /\ filename_pattern' = [filename_pattern EXCEPT ![p] = pat]
            /\ pc' = [pc EXCEPT ![p] = "load"]
            /\ UNCHANGED <<exc, exit_code, endno, file_list>>
    /\ UNCHANGED <<globalVars, io, popVars, insVars, audit, store0, seqno,
                   clVars>>

ReadConfig(p) ==
    /\ pc[p] = "config"
    /\ \/ \E e \in ConfigErrors : Raise(p, e)
       \/ \E uc \in BOOLEAN, pat \in {None, <<FILENAME_PATTERN>>} :
            /\ use_cached' = [use_cached EXCEPT ![p] = uc]
            /\ filename_pattern' = [filename_pattern EXCEPT ![p] = pat]
            /\ pc' = [pc EXCEPT ![p] = IF uc THEN "load" ELSE "build"]
            /\ UNCHANGED <<exc, exit_code, endno, file_list>>
    /\ UNCHANGED <<globalVars, io, popVars, insVars, audit,
                   store0, seqno, clVars>>

\* cache.load(): True with the snapshot of the artifact, False when the
\* artifact is missing or corrupt (the caller then builds).
CacheLoad(p) ==
    /\ pc[p] = "load"
    /\ io' = [io EXCEPT ![p] = Append(@, "load")]
    /\ IF cache_file.state = "ok"
       THEN /\ file_list' = [file_list EXCEPT ![p] = cache_file.file_list]
            /\ pc' = [pc EXCEPT ![p] = "sqlkeys"]
       ELSE /\ pc' = [pc EXCEPT ![p] = "build"]
            /\ UNCHANGED file_list
    /\ UNCHANGED <<globalVars, exc, exit_code, use_cached, filename_pattern,
                   popVars, insVars, audit,
                   ghostVars, clVars>>

\* cache.build(): walks the source location; raises when the root is
\* inaccessible.  n bounds the number of files found.
CacheBuild(p, n) ==
    /\ pc[p] = "build"
    /\ io' = [io EXCEPT ![p] = Append(@, "build")]
    /\ \/ Raise(p, "build")
       \/ \E inv \in Inventories(n) :
            /\ file_list' = [file_list EXCEPT ![p] = inv]
            /\ pc' = [pc EXCEPT ![p] = "save"]
            /\ UNCHANGED <<exc, exit_code, endno, use_cached, filename_pattern>>
    /\ UNCHANGED <<globalVars, popVars, insVars, audit,
                   store0, seqno, clVars>>

\* cache.save(): replaces the artifact; a failed save leaves the previous
\* artifact as it was and raises.
CacheSave(p) ==
    /\ pc[p] = "save"
    /\ io' = [io EXCEPT ![p] = Append(@, "save")]
    /\ \/ /\ Raise(p, "save")
          /\ UNCHANGED cache_file
       \/ /\ cache_file' = [state |-> "ok", file_list |-> file_list[p]]
          /\ pc' = [pc EXCEPT ![p] = "sqlkeys"]
          /\ UNCHANGED <<exc, exit_code, endno, use_cached, filename_pattern,
                         file_list>>
    /\ UNCHANGED <<store, nruns, popVars, insVars, audit,
                   store0, seqno, clVars>>

SqlKeyErrors ==
    {"KeyError: SQL_SERVER", "KeyError: SQL_DATABASE",
     "KeyError: SQL_INSERT_TEMPLATE_FILE_PATH"}

\* Mutant: the connection is probed with a query as soon as the server and
\* database are known, before the template path is read.
ReadSqlKeysProbeFirst(p) ==
    /\ pc[p] = "sqlkeys"
    /\ \/ \E e \in {"KeyError: SQL_SERVER", "KeyError: SQL_DATABASE"} :
            /\ Raise(p, e)
            /\ UNCHANGED store_used
       \/ /\ store_used' = [store_used EXCEPT ![p] = TRUE]
          /\ \/ Raise(p, "KeyError: SQL_INSERT_TEMPLATE_FILE_PATH")
             \/ /\ pc' = [pc EXCEPT ![p] = "populate"]
                /\ UNCHANGED <<exc, exit_code, endno, use_cached,
                               filename_pattern, file_list>>
    /\ UNCHANGED <<globalVars, io, popVars, key, count, pending, present0,
                   audit, store0, seqno, clVars>>

\* Lines 247-249: the store settings are read after the cache is in place.
ReadSqlKeys(p) ==
    /\ pc[p] = "sqlkeys"
    /\ \/ \E e \in SqlKeyErrors : Raise(p, e)
       \/ /\ pc' = [pc EXCEPT ![p] = "populate"]
          /\ UNCHANGED <<exc, exit_code, endno, use_cached, filename_pattern,
                         file_list>>
    /\ UNCHANGED <<globalVars, io, popVars, insVars, audit,
                   store0, seqno, clVars>>

\* ---------------------------------------------------- populate_fileevents
\* Lines 145-154: the counters of a run.
PopulateStart(p) ==
    /\ pc[p] = "populate"
    /\ total' = [total EXCEPT ![p] = Len(file_list[p])]
    /\ inserted' = [inserted EXCEPT ![p] = 0]
    /\ skipped' = [skipped EXCEPT ![p] = 0]
    /\ failed' = [failed EXCEPT ![p] = 0]
    /\ pc' = [pc EXCEPT ![p] = "loop"]
    /\ UNCHANGED <<globalVars, mainVars, idx, outcomes, status, emitted, ret,
                   insVars, audit,
                   ghostVars, clVars>>

\* Lines 180-182: the progress line.
Processed(ins, skp, fl) == ins + skp + fl

ProgressLine(ins, skp, fl, tot) ==
    <<Processed(ins, skp, fl), tot - Processed(ins, skp, fl), fl>>

\* The record the loop is at.
Current(p) == file_list[p][idx[p] + 1]

\* Mutant: a dedup-skip is counted as skipped and as inserted.
CountedSkipTwice(p, o) ==
    /\ inserted' = [inserted EXCEPT ![p] =
                       IF o \in {"Inserted", "Skipped"} THEN @ + 1 ELSE @]
    /\ skipped' = [skipped EXCEPT ![p] = IF o = "Skipped" THEN @ + 1 ELSE @]
    /\ failed' = [failed EXCEPT ![p] = IF o = "Failed" THEN @ + 1 ELSE @]
    /\ status' = [status EXCEPT ![p] =
                     ProgressLine(inserted'[p], skipped'[p], failed'[p], total[p])]
    /\ emitted' = [emitted EXCEPT ![p] = @ + 1]
    /\ outcomes' = [outcomes EXCEPT ![p] = Append(@, o)]
    /\ idx' = [idx EXCEPT ![p] = @ + 1]
    /\ pc' = [pc EXCEPT ![p] = "loop"]
    /\ key' = [key EXCEPT ![p] = NoKey]
    /\ count' = [count EXCEPT ![p] = 0]
    /\ pending' = [pending EXCEPT ![p] = 0]
    /\ present0' = [present0 EXCEPT ![p] = FALSE]
    /\ UNCHANGED <<total, ret>>

\* Lines 172-183: the attempt on the current record ended with outcome o; the
\* counters are updated, the progress line is printed, the loop goes on.
Counted(p, o) ==
    /\ inserted' = [inserted EXCEPT ![p] = IF o = "Inserted" THEN @ + 1 ELSE @]
    /\ skipped' = [skipped EXCEPT ![p] = IF o = "Skipped" THEN @ + 1 ELSE @]
    /\ failed' = [failed EXCEPT ![p] = IF o = "Failed" THEN @ + 1 ELSE @]
    /\ status' = [status EXCEPT ![p] =
                     ProgressLine(inserted'[p], skipped'[p], failed'[p], total[p])]
    /\ emitted' = [emitted EXCEPT ![p] = @ + 1]
    /\ outcomes' = [outcomes EXCEPT ![p] = Append(@, o)]
    /\ idx' = [idx EXCEPT ![p] = @ + 1]
    /\ pc' = [pc EXCEPT ![p] = "loop"]
    /\ key' = [key EXCEPT ![p] = NoKey]
    /\ count' = [count EXCEPT ![p] = 0]
    /\ pending' = [pending EXCEPT ![p] = 0]
    /\ present0' = [present0 EXCEPT ![p] = FALSE]
    /\ UNCHANGED <<total, ret>>

\* Mutant: the exception is counted and then ends the run.
OnExceptionAbort(p) ==
    /\ failed' = [failed EXCEPT ![p] = @ + 1]
    /\ status' = [status EXCEPT ![p] =
                     ProgressLine(inserted[p], skipped[p], failed'[p], total[p])]
    /\ emitted' = [emitted EXCEPT ![p] = @ + 1]
    /\ outcomes' = [outcomes EXCEPT ![p] = Append(@, "Failed")]
    /\ idx' = [idx EXCEPT ![p] = @ + 1]
    /\ pc' = [pc EXCEPT ![p] = "raised"]
    /\ key' = [key EXCEPT ![p] = NoKey]
    /\ count' = [count EXCEPT ![p] = 0]
    /\ pending' = [pending EXCEPT ![p] = 0]
    /\ present0' = [present0 EXCEPT ![p] = FALSE]
    /\ UNCHANGED <<total, ret, inserted, skipped>>

\* Mutant: insert_fileevent is called again for the record that raised.
OnExceptionRetry(p) ==
    /\ pc' = [pc EXCEPT ![p] = "call"]
    /\ key' = [key EXCEPT ![p] = NoKey]
    /\ count' = [count EXCEPT ![p] = 0]
    /\ pending' = [pending EXCEPT ![p] = 0]
    /\ present0' = [present0 EXCEPT ![p] = FALSE]
    /\ UNCHANGED popVars

\* Lines 177-178: an exception of insert_fileevent is caught and counted.  The
\* with block has rolled back what the connection had not committed.
OnException(p) == Counted(p, "Failed")

\* Mutant: an unknown type is counted with the dedup-skips.
ClassifyMissAsSkipped(p) ==
    /\ pc[p] = "loop"
    /\ idx[p] < total[p]
    /\ IF filename_pattern[p] = None
       THEN /\ Raise(p, "TypeError: FILENAME_PATTERN")
            /\ UNCHANGED <<idx, outcomes, skipped>>
       ELSE /\ UNCHANGED <<exc, exit_code, endno, use_cached, filename_pattern,
                           file_list>>
            /\ IF get_datafiletype_id_from_filename(
                      Current(p).filename, filename_pattern[p][1]) = None
               THEN /\ outcomes' = [outcomes EXCEPT ![p] = Append(@, "Miss")]
                    /\ idx' = [idx EXCEPT ![p] = @ + 1]
                    /\ skipped' = [skipped EXCEPT ![p] = @ + 1]
                    /\ UNCHANGED pc
               ELSE /\ pc' = [pc EXCEPT ![p] = "call"]
                    /\ UNCHANGED <<idx, outcomes, skipped>>
    /\ UNCHANGED <<globalVars, io, total, inserted, failed, status,
                   emitted, ret, insVars, audit, store0, seqno, clVars>>

\* Lines 156-160: the next record is classified; an unknown type is logged
\* and skipped by continue, before the progress line.  With no
\* FILENAME_PATTERN configured re.match(None, ...) raises TypeError, outside
\* the try block.
Classify(p) ==
    /\ pc[p] = "loop"
    /\ idx[p] < total[p]
    /\ IF filename_pattern[p] = None
       THEN /\ Raise(p, "TypeError: FILENAME_PATTERN")
            /\ UNCHANGED <<idx, outcomes>>
       ELSE /\ UNCHANGED <<exc, exit_code, endno, use_cached, filename_pattern,
                           file_list>>
            /\ IF get_datafiletype_id_from_filename(
                      Current(p).filename, filename_pattern[p][1]) = None
               THEN /\ outcomes' = [outcomes EXCEPT ![p] = Append(@, "Miss")]
                    /\ idx' = [idx EXCEPT ![p] = @ + 1]
                    /\ UNCHANGED pc
               ELSE /\ pc' = [pc EXCEPT ![p] = "call"]
                    /\ UNCHANGED <<idx, outcomes>>
    /\ UNCHANGED <<globalVars, io, total, inserted, skipped, failed, status,
                   emitted, ret, insVars, audit,
                   store0, seqno, clVars>>

\* -------------------------------------------------------- insert_fileevent
\* audit_logger.info(...) either writes its line or raises.
AuditWrites == {"written", "raised"}

\* Mutant: the audit line says Inserted whatever the attempt did.
AuditInfoAlwaysInserted(p, o, w) ==
    IF w = "written"
    THEN /\ audit' = [audit EXCEPT ![p] =
                         Append(@, <<Current(p).filename, Current(p).full_path,
                                     "Inserted">>)]
         /\ Counted(p, o)
    ELSE /\ OnException(p)
         /\ UNCHANGED audit

\* Lines 106-107 and 130-133: the line `FileName,file_location,outcome` goes
\* to the audit trail and the call returns; when the write raises, the
\* exception leaves insert_fileevent and the attempt is counted Failed.
AuditInfo(p, o, w) ==
    IF w = "written"
    THEN /\ audit' = [audit EXCEPT ![p] =
                         Append(@, <<Current(p).filename, Current(p).full_path, o>>)]
         /\ Counted(p, o)
    ELSE /\ OnException(p)
         /\ UNCHANGED audit

\* Mutant: a query whose predicate matches no row.
ExistsCountNoMatch(st, k) == 0

\* Lines 95-103: SELECT COUNT(*) over the four identity fields.
ExistsCount(st, k) == st[k]

\* Mutant: one existing row is not enough to skip.
AlreadyExistsOffByOne(c) == c > 1

\* Line 105.
AlreadyExists(c) == c > 0

\* Mutant: an insert that leaves the table alone when the key has a row.
CommittedStoreIfAbsent(st, k, n) == IF st[k] > 0 THEN st ELSE [st EXCEPT ![k] = n]

\* Mutant: a statement that replaces the table by the rows it inserts.
CommittedStoreReplacingTable(st, k, n) == [j \in DOMAIN st |-> IF j = k THEN n ELSE 0]

\* Lines 113-129: the committed insert adds the rows of the transaction.
CommittedStore(st, k, n) == [st EXCEPT ![k] = @ + n]

\* Lines 81-100: the market date is parsed and the connection opened.
Call(p) ==
    /\ pc[p] = "call"
    /\ LET rec == Current(p)
           MarketDate == fromisoformat(rec.formatted_date)
       IN  IF MarketDate = ValueError
           THEN /\ OnException(p)
                /\ UNCHANGED store_used
           ELSE /\ store_used' = [store_used EXCEPT ![p] = TRUE]
                /\ \/ OnException(p)
                   \/ /\ key' = [key EXCEPT ![p] =
                                   <<rec.filename, rec.full_path, MarketDate,
                                     get_datafiletype_id_from_filename(
                                         rec.filename, filename_pattern[p][1])[1]>>]
                      /\ present0' = [present0 EXCEPT ![p] = store[key'[p]] > 0]
                      /\ pc' = [pc EXCEPT ![p] = "check"]
                      /\ UNCHANGED <<popVars, count, pending>>
    /\ UNCHANGED <<globalVars, mainVars, audit, ghostVars, clVars>>

\* Lines 102-107: the existence query; a row found means Skipped, and the
\* with block ends a transaction that wrote nothing.
Check(p) ==
    /\ pc[p] = "check"
    /\ store_used' = [store_used EXCEPT ![p] = TRUE]
    /\ \/ /\ OnException(p)             \* the query raises
          /\ UNCHANGED audit
       \/ IF AlreadyExists(ExistsCount(store, key[p]))
          THEN \E w \in AuditWrites : AuditInfo(p, "Skipped", w)
          ELSE /\ count' = [count EXCEPT ![p] = ExistsCount(store, key[p])]
               /\ pc' = [pc EXCEPT ![p] = "insert"]
               /\ UNCHANGED <<popVars, key, pending, present0, audit>>
    /\ UNCHANGED <<globalVars, mainVars, ghostVars, clVars>>

\* Lines 110-128: the template is read and the insert executed on the
\* connection; nothing is visible to others before the commit.
Insert(p) ==
    /\ pc[p] = "insert"
    /\ \/ /\ OnException(p)            \* the template cannot be read
          /\ UNCHANGED store_used
       \/ /\ store_used' = [store_used EXCEPT ![p] = TRUE]
          /\ \/ OnException(p)
             \/ /\ pending' = [pending EXCEPT ![p] = 1]
                /\ pc' = [pc EXCEPT ![p] = "commit"]
                /\ UNCHANGED <<popVars, key, count, present0>>
    /\ UNCHANGED <<globalVars, mainVars, audit, ghostVars, clVars>>

\* Lines 129-133: the commit, then the audit line and Inserted.  A commit
\* that raises leaves the rows to the rollback of the with block; the audit
\* line is written after the commit has made the row durable.
Commit(p) ==
    /\ pc[p] = "commit"
    /\ store_used' = [store_used EXCEPT ![p] = TRUE]
    /\ \/ /\ OnException(p)
          /\ UNCHANGED <<store, audit>>
       \/ /\ store' = CommittedStore(store, key[p], pending[p])
          /\ \E w \in AuditWrites : AuditInfo(p, "Inserted", w)
    /\ UNCHANGED <<cache_file, nruns, mainVars, ghostVars, clVars>>

\* Lines 251-260: what main and __main__ make of the returned failed count.
ExitStatus(nfailed) == 0

\* Mutant: a last progress line is printed when the loop is over.
SummarizeWithProgress(p) ==
    /\ pc[p] = "loop"
    /\ idx[p] = total[p]
    /\ status' = [status EXCEPT ![p] =
                     ProgressLine(inserted[p], skipped[p], failed[p], total[p])]
    /\ emitted' = [emitted EXCEPT ![p] = @ + 1]
    /\ ret' = [ret EXCEPT ![p] = <<failed[p]>>]
    /\ exit_code' = [exit_code EXCEPT ![p] = <<ExitStatus(failed[p])>>]
    /\ pc' = [pc EXCEPT ![p] = "done"]
    /\ endno' = [endno EXCEPT ![p] = nruns]
    /\ UNCHANGED <<globalVars, exc, io, use_cached, filename_pattern, file_list,
                   total, inserted, skipped, failed, idx, outcomes, insVars,
                   audit, store0, seqno, clVars>>

\* Lines 185-191: the loop is over, the failed count is returned; main logs
\* the audit file path and returns.
Summarize(p) ==
    /\ pc[p] = "loop"
    /\ idx[p] = total[p]
    /\ ret' = [ret EXCEPT ![p] = <<failed[p]>>]
    /\ exit_code' = [exit_code EXCEPT ![p] = <<ExitStatus(failed[p])>>]
    /\ pc' = [pc EXCEPT ![p] = "done"]
    /\ endno' = [endno EXCEPT ![p] = nruns]
    /\ UNCHANGED <<globalVars, exc, io, use_cached, filename_pattern, file_list,
                   total, inserted, skipped, failed, idx, outcomes, status,
                   emitted, insVars, audit,
                   store0, seqno, clVars>>

\* ------------------------------------------------------------ specifications
Run(p, n) ==
    \/ ReadConfig(p)
    \/ CacheLoad(p)
    \/ CacheBuild(p, n)
    \/ CacheSave(p)
    \/ ReadSqlKeys(p)
    \/ PopulateStart(p)
    \/ Classify(p)
    \/ Call(p)
    \/ Check(p)
    \/ Insert(p)
    \/ Commit(p)
    \/ Summarize(p)

\* The intended deployment: one scheduled job, run after run.
Next == \E p \in Scheduled : Start(p) \/ Run(p, MaxLen)

Spec == Init /\ [][Next]_vars

\* The scheduled job under the interpreter's progress: a run that can take a
\* step takes one (every store call returns or raises).
SpecLive == Spec /\ \A p \in Scheduled : WF_vars(Run(p, MaxLen))

\* Two invocations, each started once, that may overlap.
NextConc == \E p \in Procs : (pc[p] = "idle" /\ Start(p)) \/ Run(p, MaxLenConc)

SpecConc == Init /\ [][NextConc]_vars

\* The classifier on its own: one call on a filename and a pattern.
progVars == <<globalVars, pc, mainVars, popVars, insVars, audit, ghostVars>>

InitClassify ==
    /\ store = [k \in Keys |-> IF k = KeyBS THEN 1 ELSE 0]
    /\ cache_file = [state |-> "missing", file_list |-> << >>]
    /\ Idle
    /\ cl_filename \in Filenames(MaxNameLen)
    /\ cl_pattern \in PatternInputs
    /\ cl_called = FALSE
    /\ cl_result = None

ClassifierCall ==
    /\ ~cl_called
    /\ cl_called' = TRUE
    /\ cl_result' = classify(cl_filename, cl_pattern)
    /\ UNCHANGED <<progVars, cl_filename, cl_pattern>>

NextClassify == ClassifierCall

SpecClassify == InitClassify /\ [][NextClassify]_vars

\* ------------------------------------------------------------- properties
Range(f) == {f[i] : i \in DOMAIN f}
Last(f) == f[Len(f)]

\* Positions of a record among the records the run has handled.
Positions(p, rec) ==
    {i \in 1..Len(outcomes[p]) : i <= Len(file_list[p]) /\ file_list[p][i] = rec}

\* The step ends the attempt on (or the classification of) a record of p.
Handled(p) == Len(outcomes'[p]) = Len(outcomes[p]) + 1

\* Run p ended before run q started.
Before(p, q) == pc[p] = "done" /\ seqno[q] > endno[p]

\* C1: for a record with a known type and a calendar date whose key has no
\* row when the first of two consecutive runs starts, both over inventories
\* holding the record and neither with a failed attempt: the first run's
\* first publish of it is Inserted (a repeat in the same inventory Skipped),
\* every publish of the second run is Skipped, and the key ends with one row.
C1_Idempotent ==
    \A p \in Procs, q \in Procs, rec \in Records :
        ( /\ p # q
          /\ Before(p, q)
          /\ pc[q] = "done"
          /\ rec \in Range(file_list[p])
          /\ rec \in Range(file_list[q])
          /\ "Failed" \notin Range(outcomes[p]) \cup Range(outcomes[q])
          /\ Publishable(rec)
          /\ store0[p][IdentityKey(rec)] = 0 )
        => /\ \A i \in Positions(p, rec) :
                outcomes[p][i] = IF \A j \in Positions(p, rec) : i <= j
                                 THEN "Inserted" ELSE "Skipped"
           /\ \A i \in Positions(q, rec) : outcomes[q][i] = "Skipped"
           /\ store[IdentityKey(rec)] = 1

C1_Witness ==
    /\ Before("p1", "p2")
    /\ pc["p2"] = "done"
    /\ store0["p1"][IdentityKey(RecIRS)] = 0
    /\ file_list["p1"] = <<RecIRS>>
    /\ file_list["p2"] = <<RecIRS>>
    /\ outcomes["p1"] = <<"Inserted">>
    /\ outcomes["p2"] = <<"Skipped">>
    /\ store[IdentityKey(RecIRS)] = 1

\* C2: under non-overlapping runs no identity key ever has two rows.
C2_UniqueKeys == \A k \in Keys : store[k] <= 1

C2_Witness ==
    /\ pc["p1"] = "done"
    /\ seqno["p1"] = 2
    /\ file_list["p1"] = <<RecIRS, RecIRS, RecIRS>>
    /\ outcomes["p1"] = <<"Failed", "Inserted", "Skipped">>
    /\ store[IdentityKey(RecIRS)] = 1

\* Run p has inserted a row for the record rec.
InsertedBy(p, rec) ==
    \E i \in 1..Len(outcomes[p]) :
        outcomes[p][i] = "Inserted" /\ file_list[p][i] = rec

\* C3: when two invocations have both inserted the same identity key, which
\* takes both existence checks to come before either commit, the store holds
\* (at least) two rows with that key.
C3_RaceDuplicates ==
    \A p \in Procs, q \in Procs, rec \in Records :
        (p # q /\ InsertedBy(p, rec) /\ InsertedBy(q, rec))
        => store[IdentityKey(rec)] >= 2

C3_Witness ==
    /\ store0["p1"][IdentityKey(RecIRS)] = 0
    /\ store0["p2"][IdentityKey(RecIRS)] = 0
    /\ InsertedBy("p1", RecIRS)
    /\ InsertedBy("p2", RecIRS)
    /\ store[IdentityKey(RecIRS)] = 2

\* C4: a step in which the store raises for a record adds exactly one to
\* failed, leaves inserted and skipped alone and goes on with the next
\* record; a publish that does not raise is Inserted or Skipped by what the
\* store holds; and a finished run has handled every record of its inventory.
C4_FailureIsolated ==
    /\ [](\A p \in Procs :
            /\ failed[p] = Cardinality({i \in 1..Len(outcomes[p]) :
                                           outcomes[p][i] = "Failed"})
            /\ pc[p] = "done" => Len(outcomes[p]) = Len(file_list[p]))
    /\ [][\A p \in Procs : Handled(p) =>
            /\ Last(outcomes'[p]) = "Failed" =>
                  /\ failed'[p] = failed[p] + 1
                  /\ inserted'[p] = inserted[p]
                  /\ skipped'[p] = skipped[p]
                  /\ pc'[p] = "loop"
                  /\ idx'[p] = idx[p] + 1
                  /\ exc'[p] = ""
            /\ Last(outcomes'[p]) = "Inserted" =>
                  store[key[p]] = 0 /\ store'[key[p]] = 1
            /\ Last(outcomes'[p]) = "Skipped" =>
                  store[key[p]] > 0 /\ store' = store]_vars

C4_Witness ==
    /\ pc["p1"] = "done"
    /\ Len(outcomes["p1"]) = 3
    /\ outcomes["p1"][1] \in {"Inserted", "Skipped"}
    /\ outcomes["p1"][2] = "Failed"
    /\ outcomes["p1"][3] \in {"Inserted", "Skipped"}
    /\ failed["p1"] = 1

\* insert_fileevent is running for p and the key had a row when it was called.
CalledWithKeyPresent(p) ==
    \/ /\ pc[p] = "call"
       /\ Publishable(Current(p))
       /\ store[IdentityKey(Current(p))] > 0
    \/ pc[p] \in {"check", "insert", "commit"} /\ present0[p]

\* C5 as stated: a publish called with the key present returns Skipped, never
\* executes the insert, commits nothing and leaves the store as it was.
C5_PresentKeySkipped ==
    [][\A p \in Procs : CalledWithKeyPresent(p) =>
          /\ pc'[p] \notin {"insert", "commit"}
          /\ store' = store
          /\ Handled(p) => Last(outcomes'[p]) = "Skipped"]_vars

\* C5 amended: a publish called with the key present never executes the
\* insert, commits nothing and leaves the store as it was; it returns Skipped,
\* or raises (connection or query failure) and is counted Failed.
C5_PresentKeyNoInsert ==
    [][\A p \in Procs : CalledWithKeyPresent(p) =>
          /\ pc'[p] \notin {"insert", "commit"}
          /\ store' = store
          /\ Handled(p) =>
                /\ Last(outcomes'[p]) \in {"Skipped", "Failed"}
                /\ Last(outcomes'[p]) = "Skipped" <=> skipped'[p] = skipped[p] + 1
                /\ Last(outcomes'[p]) = "Failed" <=> failed'[p] = failed[p] + 1
                /\ inserted'[p] = inserted[p]]_vars

C5_Witness ==
    /\ pc["p1"] = "loop"
    /\ store0["p1"][IdentityKey(RecIRS)] = 1
    /\ file_list["p1"] = <<RecIRS>>
    /\ outcomes["p1"] = <<"Skipped">>
    /\ store_used["p1"]
    /\ store = store0["p1"]

Misses(p) == Cardinality({i \in 1..Len(outcomes[p]) : outcomes[p][i] = "Miss"})

\* What a run did: the counts the result is to report.
Tally(p) == <<inserted[p], skipped[p], failed[p], total[p], Misses(p)>>

\* C6: what a run returns tells inserted, skipped, failed and the
\* classification misses apart: two runs over inventories of the same size
\* that return the same value have the same counts.
C6_ResultTellsOutcomes ==
    \A p \in Procs, q \in Procs :
        (pc[p] = "done" /\ pc[q] = "done" /\ total[p] = total[q] /\ ret[p] = ret[q])
        => Tally(p) = Tally(q)

\* C7: once a record has been handled, a progress line has been printed for
\* each handled record and the last one shows processed = records handled,
\* remaining = total - processed and failed = the failed count.
C7_ProgressAfterEachRecord ==
    \A p \in Procs :
        Len(outcomes[p]) > 0 =>
            /\ emitted[p] = Len(outcomes[p])
            /\ status[p] = <<Len(outcomes[p]), total[p] - Len(outcomes[p]), failed[p]>>

\* C8: a finished run returned its failed count, and the exit status of a run
\* with a failed record differs from that of a run with none.
C8_ExitReflectsFailures ==
    \A p \in Procs, q \in Procs :
        (pc[p] = "done" /\ pc[q] = "done") =>
            /\ ret[p] = <<failed[p]>>
            /\ (failed[p] > 0 /\ failed[q] = 0) => exit_code[p] # exit_code[q]

SetupErrors ==
    {"init_logging", "build", "save"} \cup ConfigErrors \cup SqlKeyErrors

\* C9: a run that setup ended (logging, configuration, cache build or save,
\* store settings) exited with the exception, returned nothing, and issued no
\* call to the store, which is as it was when the run started.
C9_SetupFailureBeforePublish ==
    \A p \in Procs :
        (pc[p] = "raised" /\ exc[p] \in SetupErrors) =>
            /\ exit_code[p] = <<1>>
            /\ ret[p] = None
            /\ outcomes[p] = << >>
            /\ ~store_used[p]
            /\ store = store0[p]

C9_Witness ==
    /\ pc["p1"] = "raised"
    /\ exc["p1"] = "KeyError: SQL_INSERT_TEMPLATE_FILE_PATH"
    /\ io["p1"] = <<"load", "build", "save">>
    /\ seqno["p1"] = 2
    /\ store[IdentityKey(RecIRS)] = 1
    /\ store0["p1"][IdentityKey(RecIRS)] = 1

KeyErrors ==
    {"KeyError: SOURCE_LOCATION", "KeyError: USE_CACHED"} \cup SqlKeyErrors

\* C10: a run that a missing required key ended has walked no source tree,
\* read or written no cache artifact and made no call to the store.
C10_MissingKeyBeforeIO ==
    \A p \in Procs :
        (pc[p] = "raised" /\ exc[p] \in KeyErrors) =>
            io[p] = << >> /\ ~store_used[p]

\* The run has its inventory and is publishing it, or has published it.
Publishing(p) ==
    pc[p] \in {"populate", "loop", "call", "check", "insert", "commit", "done"}

\* C11: a run that publishes has, with USE_CACHED true, either only loaded
\* the cache (and publishes the snapshot of the artifact) or loaded, built
\* and saved in that order (the load found no usable artifact); with
\* USE_CACHED false it has built and saved and never loaded; what was built
\* is what was saved and is published; a build follows a load only when the
\* artifact was missing or corrupt.  Before it has its inventory a run has
\* handled no record and called the store for nothing, and a run whose last
\* cache operation is a load that failed has not ended there.
C11_LoadOrBuild ==
    \A p \in Procs :
        /\ Publishing(p) =>
              /\ use_cached[p] => io[p] \in {<<"load">>, <<"load", "build", "save">>}
              /\ ~use_cached[p] => io[p] = <<"build", "save">>
              /\ cache_file = [state |-> "ok", file_list |-> file_list[p]]
              /\ total[p] \in {0, Len(file_list[p])}
        /\ pc[p] \in {"config", "load", "build", "save", "sqlkeys"} =>
              outcomes[p] = << >> /\ ~store_used[p] /\ store = store0[p]
        /\ pc[p] = "build" =>
              \/ io[p] = << >> /\ ~use_cached[p]
              \/ io[p] = <<"load">> /\ use_cached[p] /\ cache_file.state # "ok"
        /\ (pc[p] = "raised" /\ io[p] # << >> /\ Last(io[p]) = "load") =>
              cache_file.state = "ok"

C11_Witness ==
    /\ pc["p1"] = "done"
    /\ use_cached["p1"]
    /\ io["p1"] = <<"load", "build", "save">>
    /\ file_list["p1"] = <<RecIRS, RecXYZ>>
    /\ cache_file.file_list = <<RecIRS, RecXYZ>>
    /\ Len(outcomes["p1"]) = 2

\* The step ends a publish attempt of p (not a classification miss).
Attempted(p) == Handled(p) /\ Last(outcomes'[p]) # "Miss"

Group2Is(pattern, filename, c) ==
    \E j \in MatchPositions(pattern, filename) :
        /\ filename[j + 1] = c
        /\ \A k \in MatchPositions(pattern, filename) : k <= j

\* C13 as stated: for every filename and every pattern the call returns an
\* identifier or None and raises nothing.
C13_ClassifierNeverRaises ==
    cl_called => cl_result \in {None, <<1>>, <<2>>, <<3>>}

\* C13 amended: for every filename and every pattern that has a second group,
\* the call returns 1, 2 or 3 exactly when the pattern matches at the start of
\* the filename with IRS, OIS or BS in the second group, and None otherwise
\* (no match, or a code that is not mapped), without raising;
\* TRADE_IRS_20240101.csv gives 1 and TRADE_XYZ_20240101.csv gives None under
\* the configured pattern.
C13_ClassifierResult ==
    (cl_called /\ cl_pattern \in {<<FILENAME_PATTERN>>, <<ANY_CODE_PATTERN>>}) =>
        /\ cl_result \in {None, <<1>>, <<2>>, <<3>>}
        /\ cl_result = <<1>> <=> Group2Is(cl_pattern[1], cl_filename, "IRS")
        /\ cl_result = <<2>> <=> Group2Is(cl_pattern[1], cl_filename, "OIS")
        /\ cl_result = <<3>> <=> Group2Is(cl_pattern[1], cl_filename, "BS")
        /\ (cl_pattern = <<FILENAME_PATTERN>> /\ cl_filename = RecIRS.filename) =>
              cl_result = <<1>>
        /\ (cl_pattern = <<FILENAME_PATTERN>> /\ cl_filename = RecXYZ.filename) =>
              cl_result = None

C13_Witness ==
    /\ cl_called
    /\ cl_pattern = <<ANY_CODE_PATTERN>>
    /\ cl_filename = <<"TRADE", "_", "IRS", "_", "XYZ", "_">>
    /\ cl_result = None

\* C14: a run over an empty inventory, in its loop or finished, has total,
\* inserted, skipped and failed at 0, has printed no progress line, has
\* handled nothing and has made no call to the store, which is as it was; it
\* can only go on to its summary and returns 0.
C14_EmptyInventory ==
    \A p \in Procs :
        (pc[p] \in {"loop", "done"} /\ file_list[p] = << >>) =>
            /\ total[p] = 0 /\ inserted[p] = 0 /\ skipped[p] = 0 /\ failed[p] = 0
            /\ emitted[p] = 0 /\ status[p] = None
            /\ outcomes[p] = << >> /\ audit[p] = << >>
            /\ ~store_used[p] /\ store = store0[p]
            /\ pc[p] = "loop" => idx[p] = total[p]
            /\ pc[p] = "done" => ret[p] = <<0>>

C14_Witness ==
    /\ pc["p1"] = "done"
    /\ io["p1"] = <<"build", "save">>
    /\ file_list["p1"] = << >>
    /\ cache_file = [state |-> "ok", file_list |-> << >>]
    /\ ret["p1"] = <<0>>

\* C15: every run that has entered populate_fileevents reaches its summary
\* and returns its counts.
C15_ReachesSummary ==
    \A p \in Scheduled, n \in 1..MaxRuns :
        (pc[p] = "populate" /\ seqno[p] = n) ~> (pc[p] = "done" /\ seqno[p] = n)

\* The same for the runs whose configuration has a FILENAME_PATTERN.
ReachesSummaryWithPattern ==
    \A p \in Scheduled, n \in 1..MaxRuns :
        (pc[p] = "populate" /\ seqno[p] = n /\ filename_pattern[p] # None)
            ~> (pc[p] = "done" /\ seqno[p] = n)

\* insert_fileevent is running for the current record of p.
InPublish(p) == pc[p] \in {"call", "check", "insert", "commit"}

\* The classifier gives None for the current record of p.
CurrentIsMiss(p) ==
    /\ pc[p] = "loop" /\ idx[p] < total[p] /\ filename_pattern[p] # None
    /\ classify(Current(p).filename, filename_pattern[p]) = None

\* C16: insert_fileevent never runs for a record the classifier gives None
\* for; the step that handles such a record is a miss, and a miss leaves the
\* store, the store-call flag, the audit trail and the inserted, skipped and
\* failed counters as they were and moves the loop to the next record.
C16_MissNeverReachesStore ==
    /\ [](\A p \in Procs :
            InPublish(p) =>
                classify(Current(p).filename, filename_pattern[p]) \in
                    {<<1>>, <<2>>, <<3>>})
    /\ [][\A p \in Procs :
            /\ CurrentIsMiss(p) => pc'[p] = "loop"
            /\ (CurrentIsMiss(p) /\ idx'[p] # idx[p]) =>
                  Handled(p) /\ Last(outcomes'[p]) = "Miss"
            /\ (Handled(p) /\ Last(outcomes'[p]) = "Miss") =>
                  /\ CurrentIsMiss(p)
                  /\ store' = store
                  /\ store_used'[p] = store_used[p]
                  /\ audit'[p] = audit[p]
                  /\ inserted'[p] = inserted[p]
                  /\ skipped'[p] = skipped[p]
                  /\ failed'[p] = failed[p]
                  /\ pc'[p] = "loop"
                  /\ idx'[p] = idx[p] + 1]_vars

C16_Witness ==
    /\ pc["p1"] = "done"
    /\ file_list["p1"] = <<RecIRS, RecXYZ, RecIRS>>
    /\ outcomes["p1"] = <<"Inserted", "Miss", "Skipped">>
    /\ inserted["p1"] = 1 /\ skipped["p1"] = 1 /\ failed["p1"] = 0

\* How far insert_fileevent has got.
PublishStage(at) ==
    CASE at = "call" -> 1
      [] at = "check" -> 2
      [] at = "insert" -> 3
      [] at = "commit" -> 4

\* C17: the records handled are the first idx entries of the inventory, one
\* outcome each, in order; a publish attempt is on the entry after them, is
\* entered only from the loop with every earlier entry handled, goes forward
\* through its stages and is left only with its outcome (Inserted, Skipped or
\* Failed) counted and the loop at the next entry, so no entry is attempted
\* twice and a failed one is not retried.
C17_InOrderAtMostOnce ==
    /\ [](\A p \in Procs :
            /\ pc[p] \in {"loop", "call", "check", "insert", "commit", "done"} =>
                  Len(outcomes[p]) = idx[p] /\ idx[p] <= total[p]
            /\ InPublish(p) => idx[p] < total[p]
            /\ pc[p] \in {"check", "insert", "commit"} =>
                  /\ key[p][1] = file_list[p][idx[p] + 1].filename
                  /\ key[p][2] = file_list[p][idx[p] + 1].full_path
            /\ pc[p] = "done" => idx[p] = Len(file_list[p]))
    /\ [][\A p \in Procs :
            seqno'[p] = seqno[p] =>
                /\ idx'[p] \in {idx[p], idx[p] + 1}
                /\ Handled(p) <=> idx'[p] = idx[p] + 1
                /\ Handled(p) => outcomes'[p] = Append(outcomes[p], Last(outcomes'[p]))
                /\ (InPublish(p)' /\ ~InPublish(p)) =>
                      pc[p] = "loop" /\ pc'[p] = "call" /\ idx'[p] = idx[p]
                /\ (InPublish(p) /\ InPublish(p)') =>
                      /\ idx'[p] = idx[p]
                      /\ PublishStage(pc'[p]) > PublishStage(pc[p]) \/ pc'[p] = pc[p]
                      /\ pc'[p] = pc[p] => UNCHANGED <<key[p], failed[p]>>
                /\ (InPublish(p) /\ ~InPublish(p)') =>
                      /\ Handled(p)
                      /\ Last(outcomes'[p]) \in {"Inserted", "Skipped", "Failed"}
                      /\ pc'[p] = "loop"]_vars

C17_Witness ==
    /\ pc["p1"] = "done"
    /\ file_list["p1"] = <<RecOIS, RecIRS, RecXYZ>>
    /\ outcomes["p1"] = <<"Failed", "Inserted", "Miss">>
    /\ failed["p1"] = 1
    /\ idx["p1"] = 3

\* Rows the table has gained since run p started.
RECURSIVE SumOver(_, _)
SumOver(f, S) ==
    IF S = {} THEN 0
    ELSE LET k == CHOOSE x \in S : TRUE IN f[k] + SumOver(f, S \ {k})

RowsAdded(p) == SumOver(store, Keys) - SumOver(store0[p], Keys)

\* C18: a step that counts a publish attempt as Failed leaves the store and
\* the inserted and skipped counters as they were, and the rows a finished
\* single-writer run has added are as many as its inserted count.
C18_FailureLeavesStore ==
    /\ [](\A p \in Scheduled : pc[p] = "done" => RowsAdded(p) = inserted[p])
    /\ [][\A p \in Procs :
            (Handled(p) /\ Last(outcomes'[p]) = "Failed") =>
                /\ store' = store
                /\ inserted'[p] = inserted[p]
                /\ skipped'[p] = skipped[p]]_vars

\* What does hold: an attempt that fails before its commit has returned
\* leaves the store alone, and no failure touches inserted or skipped.
FailureBeforeCommitLeavesStore ==
    [][\A p \in Procs :
          (Handled(p) /\ Last(outcomes'[p]) = "Failed") =>
              /\ pc[p] # "commit" => store' = store
              /\ store' = store \/ store' = CommittedStore(store, key[p], 1)
              /\ inserted'[p] = inserted[p]
              /\ skipped'[p] = skipped[p]]_vars

\* Records of run p handled with outcome o.
CountOf(p, o) == Cardinality({i \in 1..Len(outcomes[p]) : outcomes[p][i] = o})

\* C19: each handled record has added one to exactly the counter of its
\* outcome, or to none if it was a classification miss, and nothing else
\* changes a counter; so inserted + skipped + failed is the number of publish
\* attempts made, never more than total, and total minus the misses when the
\* run has finished.
C19_CounterConservation ==
    /\ [](\A p \in Procs :
            /\ inserted[p] = CountOf(p, "Inserted")
            /\ skipped[p] = CountOf(p, "Skipped")
            /\ failed[p] = CountOf(p, "Failed")
            /\ inserted[p] + skipped[p] + failed[p] = Len(outcomes[p]) - Misses(p)
            /\ pc[p] \in {"loop", "call", "check", "insert", "commit", "done"} =>
                  inserted[p] + skipped[p] + failed[p] <= total[p]
            /\ pc[p] = "done" =>
                  inserted[p] + skipped[p] + failed[p] = total[p] - Misses(p))
    /\ [][\A p \in Procs :
            seqno'[p] = seqno[p] =>
                LET d == <<inserted'[p] - inserted[p], skipped'[p] - skipped[p],
                           failed'[p] - failed[p]>>
                IN  IF Handled(p)
                    THEN d = CASE Last(outcomes'[p]) = "Inserted" -> <<1, 0, 0>>
                               [] Last(outcomes'[p]) = "Skipped" -> <<0, 1, 0>>
                               [] Last(outcomes'[p]) = "Failed" -> <<0, 0, 1>>
                               [] Last(outcomes'[p]) = "Miss" -> <<0, 0, 0>>
                    ELSE d = <<0, 0, 0>>]_vars

C19_Witness ==
    /\ pc["p1"] = "done"
    /\ file_list["p1"] = <<RecIRS, RecXYZ, RecOIS>>
    /\ outcomes["p1"] = <<"Skipped", "Miss", "Failed">>
    /\ inserted["p1"] = 0 /\ skipped["p1"] = 1 /\ failed["p1"] = 1
    /\ total["p1"] = 3

\* C20: no step removes or changes a row: every key keeps at least the rows
\* it had, the row of the file of no inventory stays, and a key gains a row
\* only by the commit of a run publishing a record of its inventory with that
\* identity key, one row at a time; so the table holds at least what it held
\* when any run started.
C20_AppendOnlyStore ==
    /\ [](/\ store[KeyBS] = 1
          /\ \A p \in Procs :
                store = store0[p] \/ \A k \in Keys : store[k] >= store0[p][k])
    /\ [][store' # store =>
            \A k \in Keys :
                /\ store'[k] >= store[k]
                /\ store'[k] > store[k] =>
                      /\ store'[k] = store[k] + 1
                      /\ \E p \in Procs :
                            /\ pc[p] = "commit"
                            /\ key[p] = k
                            /\ Current(p) \in Range(file_list[p])
                            /\ k = IdentityKey(Current(p))
                            /\ idx'[p] = idx[p] + 1]_vars

C20_Witness ==
    /\ pc["p1"] = "done"
    /\ seqno["p1"] = 2
    /\ store0["p1"][IdentityKey(RecIRS)] = 0
    /\ store[IdentityKey(RecIRS)] = 1
    /\ store[KeyBS] = 1
    /\ outcomes["p1"] = <<"Miss", "Inserted">>

====
